---- MODULE Spec2Model ----
(***************************************************************************)
(* Authentication / authorization gate of the Discord MCP server:          *)
(*   src/src/auth/security.py      token codec and permission model        *)
(*   src/src/auth/rate_limiter.py  Redis sliding-window rate limiter       *)
(*   src/src/auth/middleware.py    rate_limit_middleware, dependencies     *)
(* Time is counted in whole seconds.  Python's None is the empty tuple and *)
(* a present Optional value x is the one-element tuple <<x>>.              *)
(***************************************************************************)
EXTENDS Integers, Sequences, FiniteSets, TLC

\* ------------------------------------------------------------------ bounds
MaxReqs == 2      \* HTTP requests of one behaviour (one more in a burst)
MaxClock == 2     \* the wall clock runs 0 .. MaxClock
MaxLimit == 2     \* settings.rate_limit_requests ranges over 1 .. MaxLimit
MaxWindow == 2    \* settings.rate_limit_window ranges over 1 .. MaxWindow
MaxList == 2      \* longest permissions / guild_ids / channel_ids list
MaxTtl == 2       \* longest expires_delta handed to create_access_token

\* ------------------------------------------------------------------ Python values
None == <<>>
Some(x) == <<x>>

\* bool(s) of a str: the empty string is falsy
TruthyStr(s) == s # ""

\* bool(o) of an Optional[str]
TruthyOptStr(o) == o # None /\ TruthyStr(o[1])

\* bool(o) of an Optional[int] / Optional[timedelta]: None and 0 are falsy
TruthyOptInt(o) == o # None /\ o[1] # 0

\* dict.get(k, default)
DictGet(d, k, default) == IF k \in DOMAIN d THEN d[k] ELSE default

\* d.update({k: v}) on a copy of d
DictUpdate(d, k, v) == [x \in (DOMAIN d) \cup {k} |-> IF x = k THEN v ELSE d[x]]

Max(S) == CHOOSE m \in S : \A x \in S : x <= m
Min(S) == CHOOSE m \in S : \A x \in S : m <= x

Range(s) == {s[i] : i \in 1..Len(s)}

SeqsUpTo(S, n) == UNION {[1..k -> S] : k \in 0..n}

\* ------------------------------------------------------------------ models/auth.py
\* PermissionLevel(str, Enum): a member compares equal to its value string
PermissionLevel == {"read_only", "read_write", "moderate", "admin"}

\* ------------------------------------------------------------------ models/settings.py
secret_key == "dev_secret_key_change_in_production"
api_key_expire_hours == 24
SecondsPerHour == 3600

\* ------------------------------------------------------------------ the jwt library
\* jwt.encode(payload, key, algorithm): the payload and a MAC of it under key.
\* A token is well formed (wf) when it parses as header.payload.signature.
jwt_encode(payload, key) ==
    [wf |-> TRUE, payload |-> payload, sig |-> <<key, payload>>]

\* The names the module bound by "import jwt" exports.
jwt_module_attrs ==
    {"encode", "decode", "PyJWTError", "InvalidTokenError", "DecodeError",
     "InvalidSignatureError", "ExpiredSignatureError"}

\* jwt.decode with options={"verify_signature": False}: the signature is not verified.
jwt_decode_unverified(token, key, utcnow) ==
    IF ~token.wf THEN [ok |-> FALSE, exc |-> "DecodeError", payload |-> <<>>]
    ELSE IF "exp" \in DOMAIN token.payload /\ token.payload["exp"] <= utcnow
         THEN [ok |-> FALSE, exc |-> "ExpiredSignatureError", payload |-> <<>>]
         ELSE [ok |-> TRUE, exc |-> "", payload |-> token.payload]

\* jwt.decode(token, key, algorithms=[...]): parse, verify the signature, then
\* reject an exp that is <= now.
jwt_decode(token, key, utcnow) ==
    IF ~token.wf THEN [ok |-> FALSE, exc |-> "DecodeError", payload |-> <<>>]
    ELSE IF token.sig # <<key, token.payload>>
         THEN [ok |-> FALSE, exc |-> "InvalidSignatureError", payload |-> <<>>]
         ELSE IF "exp" \in DOMAIN token.payload /\ token.payload["exp"] <= utcnow
              THEN [ok |-> FALSE, exc |-> "ExpiredSignatureError", payload |-> <<>>]
              ELSE [ok |-> TRUE, exc |-> "", payload |-> token.payload]

\* ------------------------------------------------------------------ auth/security.py
\* create_access_token(data, expires_delta) at time utcnow
create_access_token(data, expires_delta, utcnow) ==
    LET expire == IF TruthyOptInt(expires_delta)
                  THEN utcnow + expires_delta[1]
                  ELSE utcnow + api_key_expire_hours * SecondsPerHour
        to_encode == DictUpdate(data, "exp", expire)
    IN jwt_encode(to_encode, secret_key)

\* APIKey(...): the fields create_api_key_token reads, and is_active with its
\* default.  key_id is required; expires_at is None or a time.
APIKey(key_id, permissions, guild_ids, channel_ids, expires_at) ==
    [key_id |-> key_id, permissions |-> permissions, guild_ids |-> guild_ids,
     channel_ids |-> channel_ids, expires_at |-> expires_at, is_active |-> TRUE]

\* create_api_key_token(api_key) at time utcnow.  A datetime is truthy, so
\* expires_delta is expires_at - utcnow whenever expires_at is set.
create_api_key_token(api_key, utcnow) ==
    LET token_data == [key_id |-> Some(api_key.key_id),
                       permissions |-> api_key.permissions,
                       guild_ids |-> api_key.guild_ids,
                       channel_ids |-> api_key.channel_ids,
                       type |-> "api_key"]
        expires_delta == IF api_key.expires_at # None
                         THEN Some(api_key.expires_at[1] - utcnow)
                         ELSE None
    IN create_access_token(token_data, expires_delta, utcnow)

\* TokenData(key_id=..., user_id=..., permissions=..., guild_ids=..., channel_ids=...)
TokenData(key_id, user_id, permissions, guild_ids, channel_ids) ==
    [key_id |-> key_id, user_id |-> user_id, permissions |-> permissions,
     guild_ids |-> guild_ids, channel_ids |-> channel_ids]

\* What a call returns or raises.
Return(v) == [kind |-> "return", value |-> v, exc |-> ""]
Raise(e) == [kind |-> "raise", value |-> None, exc |-> e]

\* verify_token(token) at time utcnow.  When jwt.decode raises, Python evaluates
\* the first handler's expression jwt.JWTError; the attribute lookup itself
\* raises AttributeError when the module has no such name, and that exception
\* leaves the try statement.
verify_token(token, utcnow) ==
    LET d == jwt_decode(token, secret_key, utcnow) IN
    IF d.ok
    THEN LET payload == d.payload
             key_id == DictGet(payload, "key_id", None)
             user_id == DictGet(payload, "user_id", None)
             permissions == DictGet(payload, "permissions", <<>>)
             guild_ids == DictGet(payload, "guild_ids", <<>>)
             channel_ids == DictGet(payload, "channel_ids", <<>>)
             permission_levels ==
                 SelectSeq(permissions, LAMBDA p : p \in PermissionLevel)
         IN Return(Some(TokenData(key_id, user_id, permission_levels,
                                  guild_ids, channel_ids)))
    ELSE IF "JWTError" \in jwt_module_attrs
         THEN Return(None)
         ELSE Raise("AttributeError")

\* permission_hierarchy.get(p, 0)
permission_hierarchy(p) ==
    CASE p = "read_only" -> 1
      [] p = "read_write" -> 2
      [] p = "moderate" -> 3
      [] p = "admin" -> 4
      [] OTHER -> 0

\* max([...], default=0)
MaxDefault(S, default) == IF S = {} THEN default ELSE Max(S)

\* check_permission by set membership alone, without the hierarchy.
check_permission_membership(token_data, required_permission, guild_id, channel_id) ==
    /\ required_permission \in Range(token_data.permissions)
    /\ ~(TruthyOptStr(guild_id) /\ token_data.guild_ids # <<>>
         /\ guild_id[1] \notin Range(token_data.guild_ids))
    /\ ~(TruthyOptStr(channel_id) /\ token_data.channel_ids # <<>>
         /\ channel_id[1] \notin Range(token_data.channel_ids))

\* check_permission(token_data, required_permission, guild_id, channel_id)
check_permission(token_data, required_permission, guild_id, channel_id) ==
    LET level_fails ==
            /\ required_permission \notin Range(token_data.permissions)
            /\ LET required_level == permission_hierarchy(required_permission)
                   user_max_level ==
                       MaxDefault({permission_hierarchy(p) :
                                       p \in Range(token_data.permissions)}, 0)
               IN user_max_level < required_level
        guild_fails ==
            /\ TruthyOptStr(guild_id) /\ token_data.guild_ids # <<>>
            /\ guild_id[1] \notin Range(token_data.guild_ids)
        channel_fails ==
            /\ TruthyOptStr(channel_id) /\ token_data.channel_ids # <<>>
            /\ channel_id[1] \notin Range(token_data.channel_ids)
    IN ~level_fails /\ ~guild_fails /\ ~channel_fails

\* ------------------------------------------------------------------ Redis sorted sets
\* A sorted set is a set of entries [member, score] with one entry per member.

\* str(now): the member under which a request is recorded
Str(t) == <<"str", t>>

\* ZREMRANGEBYSCORE key min max: drop the entries with min <= score <= max
ZRemRangeByScore(z, min, max) == {e \in z : ~(min <= e.score /\ e.score <= max)}

\* ZCARD key
ZCard(z) == Cardinality(z)

\* ZADD key score member: a member already present only has its score updated
ZAdd(z, member, score) ==
    {e \in z : e.member # member} \cup {[member |-> member, score |-> score]}

\* ZCOUNT key min max
ZCount(z, min, max) == Cardinality({e \in z : min <= e.score /\ e.score <= max})

\* ZRANGE key 0 0 WITHSCORES: the entry of lowest score, or nothing
ZRangeFirst(z) ==
    IF z = {} THEN <<>>
    ELSE <<CHOOSE e \in z : \A f \in z : e.score <= f.score>>

\* ------------------------------------------------------------------ auth/rate_limiter.py
\* "x or default" on an Optional[int] argument
OrDefault(arg, default) == IF TruthyOptInt(arg) THEN arg[1] ELSE default

\* The commands is_allowed queues on the pipeline, run by pipeline.execute() as
\* one MULTI/EXEC transaction at server time srv_now.
PipelineExecute(z, now, window, srv_now) ==
    LET z1 == ZRemRangeByScore(z, 0, now - window)
        request_count == ZCard(z1)
        z2 == ZAdd(z1, Str(now), now)
    IN [zset |-> z2, expire_at |-> srv_now + window, request_count |-> request_count]

\* The decision with <= in place of <: the limit itself is admitted.
AllowedInclusive(request_count, limit) == request_count <= limit

\* allowed = request_count < limit
Allowed(request_count, limit) == request_count < limit

\* The fail-closed alternative to OnStoreError.
OnStoreErrorClosed == FALSE

\* except Exception: return True
OnStoreError == TRUE

\* The dict get_rate_limit_info returns (lines 85-94) for the replies of ZCOUNT
\* and ZRANGE.
RateLimitInfo(count, oldest_requests, cfg) ==
    LET window == cfg.rate_limit_window
        reset_time == IF oldest_requests # <<>>
                      THEN Some(oldest_requests[1].score + window)
                      ELSE None
    IN [limit |-> cfg.rate_limit_requests,
        remaining |-> Max({0, cfg.rate_limit_requests - count}),
        reset |-> reset_time,
        window |-> window]

\* get_rate_limit_info(key) at time now, the store answering: both commands
\* see the same sorted set.
get_rate_limit_info(z, now, cfg) ==
    RateLimitInfo(ZCount(z, now - cfg.rate_limit_window, now), ZRangeFirst(z), cfg)

\* The commands get_rate_limit_info sends, each on its own (no pipeline),
\* together with a pruning ZREMRANGEBYSCORE in front of them.
PeekCommandsPruning == <<"zremrangebyscore", "zcount", "zrange">>

\* The commands get_rate_limit_info sends, each on its own (no pipeline).
PeekCommands == <<"zcount", "zrange">>

\* The sorted set a command leaves behind: ZCOUNT and ZRANGE only read.
RedisEffect(cmd, z, now, window) ==
    IF cmd = "zremrangebyscore" THEN ZRemRangeByScore(z, 0, now - window)
    ELSE z

\* get_rate_limit_info(key), the store failing
get_rate_limit_info_error(cfg) ==
    [limit |-> cfg.rate_limit_requests,
     remaining |-> cfg.rate_limit_requests,
     reset |-> None,
     window |-> cfg.rate_limit_window]

\* create_rate_limit_key(prefix, identifier, endpoint): ":".join(parts)
create_rate_limit_key(prefix, identifier, endpoint) ==
    IF TruthyOptStr(endpoint)
    THEN prefix \o ":" \o identifier \o ":" \o endpoint[1]
    ELSE prefix \o ":" \o identifier

\* ------------------------------------------------------------------ auth/middleware.py
\* guild_checker without its membership test: every guild is let through.
guild_checker_open(current_user, guild_id) == Return(Some(current_user))

\* require_guild_access(guild_id).guild_checker(current_user)
guild_checker(current_user, guild_id) ==
    IF current_user.guild_ids # <<>> /\ guild_id \notin Range(current_user.guild_ids)
    THEN Raise("HTTP_403_FORBIDDEN")
    ELSE Return(Some(current_user))

\* require_channel_access(channel_id).channel_checker(current_user)
channel_checker(current_user, channel_id) ==
    IF current_user.channel_ids # <<>>
       /\ channel_id \notin Range(current_user.channel_ids)
    THEN Raise("HTTP_403_FORBIDDEN")
    ELSE Return(Some(current_user))

\* The detail of guild_checker's HTTPException
guild_checker_detail(guild_id) == "Access denied for guild: " \o guild_id

\* The detail of channel_checker's HTTPException
channel_checker_detail(channel_id) == "Access denied for channel: " \o channel_id

\* require_permission(required_permission).permission_checker(current_user)
permission_checker(current_user, required_permission) ==
    IF ~check_permission(current_user, required_permission, None, None)
    THEN Raise("HTTP_403_FORBIDDEN")
    ELSE Return(Some(current_user))

\* The detail of permission_checker's HTTPException
permission_checker_detail(required_permission) ==
    "Insufficient permissions. Required: " \o required_permission

\* A log event: the message and the names of the fields it carries.
LogEvent(msg, fields) == [msg |-> msg, fields |-> fields]

\* get_current_user(credentials): every failure of verify_token, an exception
\* as well as None, ends in the except clause, which logs and raises the 401.
get_current_user(token, utcnow) ==
    LET v == verify_token(token, utcnow) IN
    IF v.kind = "return" /\ v.value # None
    THEN [user |-> v.value, status |-> 200, detail |-> "", events |-> <<>>]
    ELSE [user |-> None, status |-> 401,
          detail |-> "Could not validate credentials",
          events |-> <<LogEvent("Authentication failed", {"error"})>>]

\* security = HTTPBearer(): without bearer credentials the dependency raises
\* "Not authenticated"; the status is 403 or 401 with the FastAPI release.
HTTPBearerStatuses == {401, 403}

\* What the dependencies of a route answer for a request: the outcomes of
\* get_current_user and of the checkers the route declares.  FastAPI solves the
\* dependencies in the order the route declares them and the first exception
\* is the response, so every failing checker is a possible answer.  A route
\* without requirements runs its handler.
RouteDepends(auth, required, guild_id, channel_id, utcnow) ==
    LET ok == {[status |-> 200, detail |-> "", events |-> <<>>]} IN
    IF required = None /\ guild_id = None /\ channel_id = None THEN ok
    ELSE IF auth = None \/ auth[1].scheme # "Bearer"
    THEN {[status |-> st, detail |-> "Not authenticated", events |-> <<>>] :
              st \in HTTPBearerStatuses}
    ELSE LET u == get_current_user(auth[1].token, utcnow) IN
         IF u.user = None
         THEN {[status |-> u.status, detail |-> u.detail, events |-> u.events]}
         ELSE LET current_user == u.user[1]
                  denied ==
                      (IF /\ required # None
                          /\ permission_checker(current_user, required[1]).kind = "raise"
                       THEN {permission_checker_detail(required[1])} ELSE {})
                      \cup
                      (IF /\ guild_id # None
                          /\ guild_checker(current_user, guild_id[1]).kind = "raise"
                       THEN {guild_checker_detail(guild_id[1])} ELSE {})
                      \cup
                      (IF /\ channel_id # None
                          /\ channel_checker(current_user, channel_id[1]).kind = "raise"
                       THEN {channel_checker_detail(channel_id[1])} ELSE {})
              IN IF denied = {} THEN ok
                 ELSE {[status |-> 403, detail |-> d, events |-> <<>>] :
                           d \in denied}

\* key_id or user_id or "anonymous"
UserIdentifier(token_data) ==
    IF TruthyOptStr(token_data.key_id) THEN token_data.key_id[1]
    ELSE IF TruthyOptStr(token_data.user_id) THEN token_data.user_id[1]
    ELSE "anonymous"

\* rate_limit_middleware up to the key: the outcome of verify_token decides.
\* auth_header is None or [scheme, token]; startswith("Bearer ") is scheme = "Bearer".
MiddlewareKey(auth_header, path, utcnow) ==
    LET bearer == auth_header # None /\ auth_header[1].scheme = "Bearer"
        v == IF bearer THEN verify_token(auth_header[1].token, utcnow)
             ELSE Return(None)
        user_id == IF v.kind = "return" /\ v.value # None
                   THEN UserIdentifier(v.value[1])
                   ELSE "anonymous"
    IN IF v.kind = "raise" THEN Raise(v.exc)
       ELSE Return(Some(create_rate_limit_key("api", user_id, Some(path))))

\* ------------------------------------------------------------------ state
VARIABLES
    clock,      \* time.time() / datetime.utcnow(), shared with the Redis server
    settings,   \* models/settings.py: the values loaded from the environment
    store,      \* Redis: key -> sorted set
    expire_at,  \* Redis: key -> time the key expires at, NoExpiry when it has no TTL
    req,        \* the HTTP requests passing through rate_limit_middleware
    tk,         \* a token being issued, altered and verified
    pm,         \* a check_permission call
    rt,         \* a request to a route that declares its access requirements
    pk,         \* a get_rate_limit_info call
    rs,         \* a reset_rate_limit call
    ky,         \* hash_api_key and create_rate_limit_key calls
    ia          \* an is_allowed call with explicit limit and window

vars == <<clock, settings, store, expire_at, req, tk, pm, rt, pk, rs, ky, ia>>

NoExpiry == -1
Never == -1

Reqs == DOMAIN req

\* The bearer token of an issued API key (create_api_key_token at time 0).
KeyToken ==
    create_access_token(
        [key_id |-> Some("k1"), permissions |-> <<"read_only">>,
         guild_ids |-> <<"g1">>, channel_ids |-> <<>>, type |-> "api_key"],
        None, 0)

\* "invalid.token.here"
GarbageToken == [wf |-> FALSE, payload |-> <<>>, sig |-> <<>>]

\* The Authorization headers requests arrive with.
RequestHeaders ==
    {None,
     Some([scheme |-> "Bearer", token |-> KeyToken]),
     Some([scheme |-> "Bearer", token |-> GarbageToken])}

\* request.url.path
Paths == {"/mcp/tools"}

\* The keys rate_limit_middleware can derive.
RateLimitKeys ==
    {create_rate_limit_key("api", u, Some(p)) : u \in {"anonymous", "k1"}, p \in Paths}

\* pc: new -> timed -> done.  overlap: the requests that were inside is_allowed
\* when this one entered it.  request_count is Never until the store answers.
NewRequest ==
    [pc |-> "new", key |-> "", limit |-> 0, window |-> 0,
     now |-> Never, request_count |-> Never, allowed |-> FALSE, failed |-> FALSE,
     status |-> 0, overlap |-> {}]

TkIdle ==
    [phase |-> "idle", data |-> <<>>, ttl |-> None, issued_at |-> Never,
     token |-> GarbageToken, altered |-> FALSE, result |-> Return(None),
     verified_at |-> Never, credential |-> None]

PmIdle ==
    [phase |-> "idle", token_data |-> TokenData(None, None, <<>>, <<>>, <<>>),
     required |-> "read_only", guild_id |-> None, channel_id |-> None,
     result |-> FALSE, guild_raises |-> FALSE, channel_raises |-> FALSE]

\* phase: new -> forwarded -> done.  sent counts the requests sent to the route;
\* events are the log events of the current request; last_anonymous is the
\* client and key of the request before it when that one carried no token.
RtIdle ==
    [phase |-> "idle", auth |-> None, client |-> "", required |-> None,
     guild_id |-> None, channel_id |-> None, sent |-> 0, key |-> "",
     allowed |-> FALSE, status |-> 0, detail |-> "", headers |-> <<>>,
     events |-> <<>>, last_anonymous |-> None]

\* phase: idle -> reading -> done; step counts the commands answered.
PkIdle ==
    [phase |-> "idle", key |-> "", now |-> Never, step |-> 0, count |-> 0,
     result |-> Return(None)]

\* phase: idle -> done.  calls counts the is_allowed calls made; exhausted: the
\* key was at its limit when it was deleted; after: the answers of the
\* is_allowed calls made for the key since.
RsIdle ==
    [phase |-> "idle", key |-> "", exhausted |-> FALSE, result |-> FALSE,
     calls |-> 0, after |-> <<>>]

\* hashes: what hash_api_key returned for api_key, call after call; callers:
\* the requests whose rate-limit keys are derived; keys: the keys derived.
KyIdle ==
    [api_key |-> "", hashes |-> <<>>, callers |-> <<>>, keys |-> <<>>]

\* The last is_allowed(key, limit, window) call: its arguments and its answer.
IaIdle ==
    [calls |-> 0, key |-> "", limit |-> None, window |-> None, now |-> Never,
     in_window |-> Never, allowed |-> FALSE, failed |-> FALSE]

SettingsValues ==
    [rate_limit_requests : 1..MaxLimit, rate_limit_window : 1..MaxWindow]

\* The server starts with an empty store and n requests still to arrive.
InitServer(n) ==
    /\ clock = 0
    /\ settings \in SettingsValues
    /\ store = [k \in RateLimitKeys |-> {}]
    /\ expire_at = [k \in RateLimitKeys |-> NoExpiry]
    /\ req = [r \in 1..n |-> NewRequest]

Init ==
    /\ InitServer(MaxReqs)
    /\ tk = TkIdle
    /\ pm = PmIdle
    /\ rt = RtIdle
    /\ pk = PkIdle
    /\ rs = RsIdle
    /\ ky = KyIdle
    /\ ia = IaIdle

\* ------------------------------------------------------------------ actions
\* Time passes; Redis drops the keys whose TTL has run out.
Tick ==
    /\ clock < MaxClock
    /\ clock' = clock + 1
    /\ LET gone(k) == expire_at[k] # NoExpiry /\ expire_at[k] <= clock + 1 IN
       /\ store' = [k \in RateLimitKeys |-> IF gone(k) THEN {} ELSE store[k]]
       /\ expire_at' = [k \in RateLimitKeys |->
                           IF gone(k) THEN NoExpiry ELSE expire_at[k]]
    /\ UNCHANGED <<settings, req, tk, pm, rt, pk, rs, ky, ia>>

\* rate_limit_middleware lines 100-118 and is_allowed lines 31-37: the key is
\* derived, limit and window default to the settings, now = time.time().
\* An exception of verify_token leaves the middleware: the server answers 500.
\* Requests are numbered in the order they arrive.
Receive(r) ==
    /\ req[r].pc = "new"
    /\ \A q \in Reqs : q < r => req[q].pc # "new"
    /\ \E h \in RequestHeaders, p \in Paths :
         LET m == MiddlewareKey(h, p, clock) IN
         IF m.kind = "raise"
         THEN req' = [req EXCEPT ![r] =
                    [@ EXCEPT !.pc = "done", !.status = 500]]
         ELSE req' = [req EXCEPT ![r] =
                    [@ EXCEPT !.pc = "timed",
                              !.key = m.value[1],
                              !.limit = OrDefault(None, settings.rate_limit_requests),
                              !.window = OrDefault(None, settings.rate_limit_window),
                              !.now = clock,
                              !.overlap = {q \in Reqs : req[q].pc = "timed"}]]
    /\ UNCHANGED <<clock, settings, store, expire_at, tk, pm, rt, pk, rs, ky, ia>>

\* get_rate_limit_info(key) as a call: both paths of its try statement return.
RateInfoCall(z, now, cfg, store_ok) ==
    IF store_ok THEN Return(get_rate_limit_info(z, now, cfg))
    ELSE Return(get_rate_limit_info_error(cfg))

\* rate_limit_middleware lines 120-145 once is_allowed has returned: an allowed
\* request is handed to call_next and answered by it (200); a limited one
\* raises HTTPException(429), which leaves the middleware like any exception:
\* the exception handlers sit inside the user middleware, so the server
\* answers 500.  Either way get_rate_limit_info is asked for the rate headers.
StatusAfter(allowed, rate_info) ==
    IF rate_info.kind = "raise" THEN 500
    ELSE IF allowed THEN 200 ELSE 500

\* is_allowed lines 40-65, then the rest of rate_limit_middleware:
\* pipeline.execute() answers.
Execute(r) ==
    /\ req[r].pc = "timed"
    /\ LET k == req[r].key
           res == PipelineExecute(store[k], req[r].now, req[r].window, clock)
           allowed == Allowed(res.request_count, req[r].limit)
       IN /\ store' = [store EXCEPT ![k] = res.zset]
          /\ expire_at' = [expire_at EXCEPT ![k] = res.expire_at]
          /\ \E store_ok \in BOOLEAN :
               req' = [req EXCEPT ![r] =
                 [@ EXCEPT !.pc = "done",
                           !.request_count = res.request_count,
                           !.allowed = allowed,
                           !.status = StatusAfter(allowed,
                               RateInfoCall(res.zset, clock, settings, store_ok))]]
    /\ UNCHANGED <<clock, settings, tk, pm, rt, pk, rs, ky, ia>>

\* is_allowed lines 67-70, then the rest of rate_limit_middleware:
\* pipeline.execute() raises (connection lost, timeout).  The server may or may
\* not have run the transaction before the client gave up.
ExecuteError(r) ==
    /\ req[r].pc = "timed"
    /\ LET k == req[r].key
           res == PipelineExecute(store[k], req[r].now, req[r].window, clock)
           allowed == OnStoreError
       IN \E applied, store_ok \in BOOLEAN :
               /\ store' = [store EXCEPT ![k] = IF applied THEN res.zset ELSE @]
               /\ expire_at' = [expire_at EXCEPT ![k] =
                                   IF applied THEN res.expire_at ELSE @]
               /\ req' = [req EXCEPT ![r] =
                     [@ EXCEPT !.pc = "done",
                               !.failed = TRUE,
                               !.allowed = allowed,
                               !.status = StatusAfter(allowed,
                                   RateInfoCall(store'[k], clock, settings, store_ok))]]
    /\ UNCHANGED <<clock, settings, tk, pm, rt, pk, rs, ky, ia>>

Next ==
    \/ Tick
    \/ \E r \in Reqs : Receive(r)
    \/ \E r \in Reqs : Execute(r)
    \/ \E r \in Reqs : ExecuteError(r)

Spec == Init /\ [][Next]_vars

\* A burst: one request more than MaxReqs.
InitBurst ==
    /\ InitServer(MaxReqs + 1)
    /\ tk = TkIdle
    /\ pm = PmIdle
    /\ rt = RtIdle
    /\ pk = PkIdle
    /\ rs = RsIdle
    /\ ky = KyIdle
    /\ ia = IaIdle

SpecBurst == InitBurst /\ [][Next]_vars

\* ------------------------------------------------------------------ token life cycle
\* The settings of models/settings.py when the environment sets none.
DefaultSettings == [rate_limit_requests |-> 100, rate_limit_window |-> 60]

\* A server that receives no request.
InitQuiet ==
    /\ clock = 0
    /\ settings = DefaultSettings
    /\ store = [k \in RateLimitKeys |-> {}]
    /\ expire_at = [k \in RateLimitKeys |-> NoExpiry]
    /\ req = [r \in {} |-> NewRequest]

\* The permission strings callers put into a claims dict: enum values, and the
\* enum member name the tests use.
PermissionStrings == {"read_only", "admin", "READ_ONLY"}

\* The data dicts handed to create_access_token.
ClaimsData ==
    [key_id : {None, Some("k1")},
     user_id : {None, Some("u1")},
     permissions : SeqsUpTo(PermissionStrings, MaxList),
     guild_ids : {<<>>, <<"g1">>},
     channel_ids : {<<>>, <<"c1">>}]

\* expires_delta: None, or a timedelta of whole seconds
ExpiresDeltas == {None} \cup {Some(t) : t \in 0..MaxTtl}

InitToken ==
    /\ InitQuiet
    /\ tk \in [phase : {"idle"}, data : ClaimsData, ttl : ExpiresDeltas,
               issued_at : {Never}, token : {GarbageToken}, altered : {FALSE},
               result : {Return(None)}, verified_at : {Never},
               credential : {None}]
    /\ pm = PmIdle
    /\ rt = RtIdle
    /\ pk = PkIdle
    /\ rs = RsIdle
    /\ ky = KyIdle
    /\ ia = IaIdle

\* create_access_token(data, expires_delta)
TkIssue ==
    /\ tk.phase = "idle"
    /\ tk' = [tk EXCEPT !.phase = "issued",
                        !.token = create_access_token(tk.data, tk.ttl, clock),
                        !.issued_at = clock]
    /\ UNCHANGED <<clock, settings, store, expire_at, req, pm, rt, pk, rs, ky, ia>>

\* credential.expires_at: not set, a time the clock reaches, or a time later
\* than the default life of a token.
ExpiresAts ==
    {None} \cup {Some(t) : t \in 0..MaxClock}
           \cup {Some(MaxClock + api_key_expire_hours * SecondsPerHour + 1)}

\* create_api_key_token(api_key) for a credential made of the data at hand.
TkIssueKey ==
    /\ tk.phase = "idle"
    /\ tk.ttl = None
    /\ tk.data.key_id # None
    /\ tk.data.user_id = None
    /\ Range(tk.data.permissions) \subseteq PermissionLevel
    /\ \E e \in ExpiresAts :
         LET api_key == APIKey(tk.data.key_id[1], tk.data.permissions,
                               tk.data.guild_ids, tk.data.channel_ids, e)
         IN tk' = [tk EXCEPT !.phase = "issued",
                             !.token = create_api_key_token(api_key, clock),
                             !.issued_at = clock,
                             !.credential = Some(api_key)]
    /\ UNCHANGED <<clock, settings, store, expire_at, req, pm, rt, pk, rs, ky, ia>>

\* What somebody without the secret can make of a token: a changed claim or a
\* later exp under the old signature, a signature under another key, garbage.
AlteredCopies(token) ==
    {[token EXCEPT !.payload = DictUpdate(token.payload, "permissions", <<"admin">>)],
     [token EXCEPT !.payload =
         DictUpdate(token.payload, "exp", token.payload["exp"] + MaxClock + 1)],
     jwt_encode(DictUpdate(token.payload, "permissions", <<"admin">>), "attacker_key"),
     GarbageToken} \ {token}

\* The token is altered on its way back to the server.
TkAlter ==
    /\ tk.phase = "issued"
    /\ ~tk.altered
    /\ \E t \in AlteredCopies(tk.token) :
         tk' = [tk EXCEPT !.token = t, !.altered = TRUE]
    /\ UNCHANGED <<clock, settings, store, expire_at, req, pm, rt, pk, rs, ky, ia>>

\* The credential of the issued token is revoked: api_key.is_active = False.
TkRevoke ==
    /\ tk.phase = "issued"
    /\ tk.credential # None
    /\ tk.credential[1].is_active
    /\ tk' = [tk EXCEPT !.credential = Some([@[1] EXCEPT !.is_active = FALSE])]
    /\ UNCHANGED <<clock, settings, store, expire_at, req, pm, rt, pk, rs, ky, ia>>

\* verify_token(token) with a look at the issuing credential first: the token
\* of a credential that is no longer active yields None.
TkVerifyActive ==
    /\ tk.phase = "issued"
    /\ tk' = [tk EXCEPT !.phase = "verified",
                        !.result = IF tk.credential # None
                                      /\ ~tk.credential[1].is_active
                                   THEN Return(None)
                                   ELSE verify_token(tk.token, clock),
                        !.verified_at = clock]
    /\ UNCHANGED <<clock, settings, store, expire_at, req, pm, rt, pk, rs, ky, ia>>

\* verify_token(token)
TkVerify ==
    /\ tk.phase = "issued"
    /\ tk' = [tk EXCEPT !.phase = "verified",
                        !.result = verify_token(tk.token, clock),
                        !.verified_at = clock]
    /\ UNCHANGED <<clock, settings, store, expire_at, req, pm, rt, pk, rs, ky, ia>>

NextToken == Tick \/ TkIssue \/ TkIssueKey \/ TkAlter \/ TkRevoke \/ TkVerify

SpecToken == InitToken /\ [][NextToken]_vars

\* ------------------------------------------------------------------ permission checks
\* The principals check_permission is asked about.
TokenDatas ==
    {TokenData(None, None, permissions, guild_ids, channel_ids) :
        permissions \in SeqsUpTo(PermissionLevel, MaxList),
        guild_ids \in {<<>>, <<"g1">>, <<"g1", "g2">>},
        channel_ids \in {<<>>, <<"c1">>}}

\* guild_id / channel_id arguments: not given, empty, in a scope, in no scope
GuildArgs == {None, Some(""), Some("g1"), Some("g3")}
ChannelArgs == {None, Some(""), Some("c1"), Some("c3")}

InitPerm ==
    /\ InitQuiet
    /\ tk = TkIdle
    /\ pm \in [phase : {"idle"}, token_data : TokenDatas, required : PermissionLevel,
               guild_id : GuildArgs, channel_id : ChannelArgs, result : {FALSE},
               guild_raises : {FALSE}, channel_raises : {FALSE}]
    /\ rt = RtIdle
    /\ pk = PkIdle
    /\ rs = RsIdle
    /\ ky = KyIdle
    /\ ia = IaIdle

\* check_permission(token_data, required, guild_id, channel_id), and for a given
\* guild / channel the dependencies of require_guild_access / require_channel_access.
PmCheck ==
    /\ pm.phase = "idle"
    /\ pm' = [pm EXCEPT
           !.phase = "checked",
           !.result = check_permission(pm.token_data, pm.required,
                                       pm.guild_id, pm.channel_id),
           !.guild_raises =
               /\ pm.guild_id # None
               /\ guild_checker(pm.token_data, pm.guild_id[1]).kind = "raise",
           !.channel_raises =
               /\ pm.channel_id # None
               /\ channel_checker(pm.token_data, pm.channel_id[1]).kind = "raise"]
    /\ UNCHANGED <<clock, settings, store, expire_at, req, tk, rt, pk, rs, ky, ia>>

NextPerm == PmCheck

SpecPerm == InitPerm /\ [][NextPerm]_vars

\* ------------------------------------------------------------------ routes with requirements
\* The token of KeyToken's key with expires_delta of one second.
ShortToken ==
    create_access_token(
        [key_id |-> Some("k1"), permissions |-> <<"read_only">>,
         guild_ids |-> <<"g1">>, channel_ids |-> <<>>, type |-> "api_key"],
        Some(1), 0)

\* The Authorization headers sent to a route.
RouteHeaders ==
    RequestHeaders \cup {Some([scheme |-> "Bearer", token |-> ShortToken])}

\* request.client.host
ClientHosts == {"10.0.0.1", "10.0.0.2"}

\* What a route declares: require_permission(level), require_guild_access(id),
\* require_channel_access(id), each or none of them.
RouteLevels == {None, Some("read_only"), Some("read_write")}
RouteGuilds == {None, Some("g1"), Some("g2")}
RouteChannels == {None, Some("c1")}

\* The one route of Paths.
RoutePath == CHOOSE p \in Paths : TRUE

InitRoute ==
    /\ clock = 0
    /\ settings \in {c \in SettingsValues : c.rate_limit_window = MaxWindow}
    /\ store = [k \in RateLimitKeys |-> {}]
    /\ expire_at = [k \in RateLimitKeys |-> NoExpiry]
    /\ req = [r \in {} |-> NewRequest]
    /\ tk = TkIdle
    /\ pm = PmIdle
    /\ pk = PkIdle
    /\ rs = RsIdle
    /\ ky = KyIdle
    /\ ia = IaIdle
    /\ rt \in [phase : {"idle"}, auth : {None}, client : {""},
               required : RouteLevels, guild_id : RouteGuilds,
               channel_id : RouteChannels, sent : {0}, key : {""},
               allowed : {FALSE}, status : {0}, detail : {""},
               headers : {<<>>}, events : {<<>>}, last_anonymous : {None}]

\* A client sends a request to the route.
RtSend ==
    /\ rt.phase \in {"idle", "done"}
    /\ rt.sent < MaxReqs
    /\ \E h \in RouteHeaders, c \in ClientHosts :
         rt' = [rt EXCEPT !.phase = "new", !.auth = h, !.client = c,
                          !.sent = @ + 1, !.key = "", !.allowed = FALSE,
                          !.status = 0, !.detail = "", !.headers = <<>>,
                          !.events = <<>>,
                          !.last_anonymous =
                              IF rt.auth = None /\ rt.key # ""
                              THEN Some([client |-> rt.client, key |-> rt.key])
                              ELSE None]
    /\ UNCHANGED <<clock, settings, store, expire_at, req, tk, pm, pk, rs, ky, ia>>

\* The X-RateLimit-* headers made of get_rate_limit_info's answer.
RateHeaders(rate_info) ==
    [limit |-> Some(rate_info.limit), remaining |-> Some(rate_info.remaining),
     reset |-> rate_info.reset, retry_after |-> None]

\* rate_limit_middleware up to call_next.  An exception of verify_token, and the
\* HTTPException of line 124, leave the middleware: exception handlers are
\* installed inside the user middleware, so the server answers 500 without
\* the exception's headers (for which line 122 has asked get_rate_limit_info).
\* The request is recorded in the store before any dependency of the route
\* has run.
RtMiddleware ==
    /\ rt.phase = "new"
    /\ LET m == MiddlewareKey(rt.auth, RoutePath, clock) IN
       IF m.kind = "raise"
       THEN /\ rt' = [rt EXCEPT !.phase = "done", !.status = 500,
                                !.detail = "Internal Server Error"]
            /\ UNCHANGED <<store, expire_at>>
       ELSE LET k == m.value[1]
                limit == OrDefault(None, settings.rate_limit_requests)
                window == OrDefault(None, settings.rate_limit_window)
                res == PipelineExecute(store[k], clock, window, clock)
            IN \E failed, applied, info_ok \in BOOLEAN :
                 /\ failed \/ applied
                 /\ info_ok \/ (~failed /\ ~Allowed(res.request_count, limit))
                 /\ store' = [store EXCEPT ![k] = IF applied THEN res.zset ELSE @]
                 /\ expire_at' = [expire_at EXCEPT ![k] =
                                     IF applied THEN res.expire_at ELSE @]
                 /\ LET allowed == IF failed THEN OnStoreError
                                   ELSE Allowed(res.request_count, limit)
                        events ==
                            IF failed
                            THEN <<LogEvent("Rate limiting error", {"error"})>>
                            ELSE IF ~allowed
                            THEN <<LogEvent("Rate limit exceeded",
                                            {"key", "count", "limit", "window"})>>
                                 \o (IF info_ok THEN <<>>
                                     ELSE <<LogEvent("Failed to get rate limit info",
                                                     {"error"})>>)
                            ELSE <<>>
                    IN rt' = [rt EXCEPT
                           !.phase = IF allowed THEN "forwarded" ELSE "done",
                           !.key = k,
                           !.allowed = allowed,
                           !.events = events,
                           !.status = IF allowed THEN 0 ELSE 500,
                           !.detail = IF allowed THEN "" ELSE "Internal Server Error"]
    /\ UNCHANGED <<clock, settings, req, tk, pm, pk, rs, ky, ia>>

\* call_next(request): the dependencies of the route and its handler answer, then
\* the middleware adds the rate limit headers (lines 139-143).
RtRoute ==
    /\ rt.phase = "forwarded"
    /\ \E a \in RouteDepends(rt.auth, rt.required, rt.guild_id, rt.channel_id, clock),
          store_ok \in BOOLEAN :
         LET rate_info == RateInfoCall(store[rt.key], clock, settings, store_ok).value
             info_events ==
                 IF store_ok THEN <<>>
                 ELSE <<LogEvent("Failed to get rate limit info", {"error"})>>
         IN rt' = [rt EXCEPT !.phase = "done", !.status = a.status,
                             !.detail = a.detail,
                             !.headers = RateHeaders(rate_info),
                             !.events = @ \o a.events \o info_events]
    /\ UNCHANGED <<clock, settings, store, expire_at, req, tk, pm, pk, rs, ky, ia>>

NextRoute == Tick \/ RtSend \/ RtMiddleware \/ RtRoute

SpecRoute == InitRoute /\ [][NextRoute]_vars

\* ------------------------------------------------------------------ get_rate_limit_info among writers
\* The server of InitServer with one request fewer, and a get_rate_limit_info
\* call for one of the keys.
InitPeek ==
    /\ InitServer(MaxReqs - 1)
    /\ tk = TkIdle
    /\ pm = PmIdle
    /\ rt = RtIdle
    /\ pk \in [phase : {"idle"}, key : RateLimitKeys, now : {Never}, step : {0},
               count : {0}, result : {Return(None)}]
    /\ rs = RsIdle
    /\ ky = KyIdle
    /\ ia = IaIdle

\* get_rate_limit_info lines 75-76: window and now are read.
PkStart ==
    /\ pk.phase = "idle"
    /\ pk' = [pk EXCEPT !.phase = "reading", !.now = clock]
    /\ UNCHANGED <<clock, settings, store, expire_at, req, tk, pm, rt, rs, ky, ia>>

\* The next command is answered by the store; after the last one the dict of
\* lines 89-94 is returned.
PkCommand ==
    /\ pk.phase = "reading"
    /\ LET window == settings.rate_limit_window
           cmd == PeekCommands[pk.step + 1]
           z == RedisEffect(cmd, store[pk.key], pk.now, window)
           count == IF cmd = "zcount" THEN ZCount(z, pk.now - window, pk.now)
                    ELSE pk.count
           last == pk.step + 1 = Len(PeekCommands)
       IN /\ store' = [store EXCEPT ![pk.key] = z]
          /\ pk' = [pk EXCEPT
                 !.step = @ + 1,
                 !.count = count,
                 !.phase = IF last THEN "done" ELSE "reading",
                 !.result = IF last
                            THEN Return(RateLimitInfo(count, ZRangeFirst(z), settings))
                            ELSE @]
    /\ UNCHANGED <<clock, settings, expire_at, req, tk, pm, rt, rs, ky, ia>>

\* A command raises (connection lost, timeout): the except clause of lines
\* 96-103 returns the defaults.
PkFail ==
    /\ pk.phase = "reading"
    /\ pk' = [pk EXCEPT !.phase = "done",
                        !.result = Return(get_rate_limit_info_error(settings))]
    /\ UNCHANGED <<clock, settings, store, expire_at, req, tk, pm, rt, rs, ky, ia>>

NextPeek ==
    \/ Tick
    \/ \E r \in Reqs : Receive(r)
    \/ \E r \in Reqs : Execute(r)
    \/ \E r \in Reqs : ExecuteError(r)
    \/ PkStart
    \/ PkCommand
    \/ PkFail

SpecPeek == InitPeek /\ [][NextPeek]_vars

\* ------------------------------------------------------------------ rate limiter claims
\* The requests of key k that is_allowed has answered.
Checked(k) == {r \in Reqs : req[r].pc = "done" /\ req[r].key = k}

\* The store answered every checked request of k.
NoFailure(k) == \A r \in Checked(k) : ~req[r].failed

\* Every checked request of k read its clock, and the present moment lies, less
\* than one window after the earliest of them.
InsideOneWindow(k) ==
    clock - Min({req[r].now : r \in Checked(k)}) < settings.rate_limit_window

\* The checked requests of k were all inside is_allowed at the same time.
Concurrent(k) == \A r, q \in Checked(k) : q < r => q \in req[r].overlap

\* Each checked request of k entered is_allowed after the one before it had left.
Sequential(k) == \A r \in Checked(k) : req[r].overlap = {}

Admitted(k) == {r \in Checked(k) : req[r].allowed}

\* The position of r among the calls made for its key.
Rank(r) == Cardinality({q \in Checked(req[r].key) : q <= r})

\* C1: C > L requests of one key checked concurrently inside one window
\* (same clock value or not): exactly L are allowed and C - L are rejected.
C1_ExactlyLimitAdmitted ==
    \A k \in RateLimitKeys :
        ( /\ Cardinality(Checked(k)) > settings.rate_limit_requests
          /\ NoFailure(k) /\ Concurrent(k) /\ InsideOneWindow(k) )
        => /\ Cardinality(Admitted(k)) = settings.rate_limit_requests
           /\ Cardinality(Checked(k) \ Admitted(k))
                  = Cardinality(Checked(k)) - settings.rate_limit_requests

\* C2: the store sub-steps of one is_allowed call are one atomic unit, so two
\* concurrent requests of a key inside one window never both observe the same
\* count below the limit.
C2_NoSharedCount ==
    \A k \in RateLimitKeys : \A r, q \in Checked(k) :
        ( /\ q < r /\ q \in req[r].overlap
          /\ NoFailure(k) /\ InsideOneWindow(k) )
        => ~( /\ req[r].request_count = req[q].request_count
              /\ req[r].request_count < settings.rate_limit_requests )

\* C3, first part: the first N <= L sequential calls inside a window are allowed.
C3_FirstCallsAllowed ==
    \A k \in RateLimitKeys : \A r \in Checked(k) :
        ( /\ NoFailure(k) /\ Sequential(k) /\ InsideOneWindow(k)
          /\ Rank(r) <= settings.rate_limit_requests )
        => req[r].allowed

\* C3, second part: the (L+1)th sequential call inside the same window is not allowed.
C3_NextCallRejected ==
    \A k \in RateLimitKeys : \A r \in Checked(k) :
        ( /\ NoFailure(k) /\ Sequential(k) /\ InsideOneWindow(k)
          /\ Rank(r) = settings.rate_limit_requests + 1 )
        => ~req[r].allowed

\* C3, third part: a call made a full window after the last one is allowed.
C3_AllowedAfterWindow ==
    \A k \in RateLimitKeys : \A r \in Checked(k) :
        ( /\ NoFailure(k) /\ Sequential(k)
          /\ \A q \in Checked(k) :
                 q < r => req[r].now - req[q].now >= settings.rate_limit_window )
        => req[r].allowed

\* C3: from a key with no recorded requests, the first N <= L sequential calls
\* inside W are allowed, the (L+1)th inside the same W is not, and after W
\* seconds without a request for the key the next call is allowed again.
C3_SlidingWindow ==
    C3_FirstCallsAllowed /\ C3_NextCallRejected /\ C3_AllowedAfterWindow

C5_FailOpen ==
    \A r \in Reqs : req[r].failed => req[r].allowed /\ req[r].status = 200

\* C5 witness: the store failed on every check of a key that had already been
\* filled past its limit, and the request still went through.
C5_Witness ==
    \E r, q \in Reqs :
        /\ q < r /\ req[q].pc = "done" /\ req[r].pc = "done"
        /\ req[q].key = req[r].key /\ req[q].failed /\ req[r].failed
        /\ Cardinality(store[req[r].key]) >= req[r].limit
        /\ req[r].status = 200

\* ------------------------------------------------------------------ token claims
\* The claims set a data dict stands for.
ClaimsOf(data) ==
    TokenData(data.key_id, data.user_id, data.permissions,
              data.guild_ids, data.channel_ids)

\* The token carries a signature made with the process secret over its payload.
SignatureVerifies(token) == token.wf /\ token.sig = <<secret_key, token.payload>>

\* The token's expiry is <= now.
ExpiredAt(token, now) ==
    token.wf /\ "exp" \in DOMAIN token.payload /\ token.payload["exp"] <= now

\* The call returned a claims set.
ReturnsClaims(result) == result.kind = "return" /\ result.value # None

\* C6: for every claims set C and ttl t > 0, verify_token(create_access_token(C, t))
\* called before t elapses returns exactly the claims C: none lost, added or altered.
C6_RoundTrip ==
    (/\ tk.phase = "verified"
     /\ ~tk.altered
     /\ tk.ttl # None
     /\ tk.ttl[1] > 0
     /\ tk.verified_at < tk.issued_at + tk.ttl[1])
    => tk.result = Return(Some(ClaimsOf(tk.data)))

\* C7: verify_token never returns claims for a token whose signature does not
\* verify under the process secret (altered copies of a valid token included) or
\* whose expiry is <= now, whatever the token's claims are.
C7_BadTokenYieldsNoClaims ==
    (/\ tk.phase = "verified"
     /\ (~SignatureVerifies(tk.token) \/ ExpiredAt(tk.token, tk.verified_at)))
    => ~ReturnsClaims(tk.result)

\* A valid token whose permissions were rewritten to admin under the old
\* signature has been verified and produced no claims.
C7_Witness ==
    /\ tk.phase = "verified"
    /\ tk.altered
    /\ tk.token.wf
    /\ tk.token.payload["permissions"] = <<"admin">>
    /\ tk.token.sig[1] = secret_key
    /\ ~ReturnsClaims(tk.result)

\* C8: verify_token never raises for untrusted input: a malformed, wrongly signed
\* or expired token gets the ordinary rejection value None.
C8_RejectsWithNone ==
    (/\ tk.phase = "verified"
     /\ (~SignatureVerifies(tk.token) \/ ExpiredAt(tk.token, tk.verified_at)))
    => tk.result = Return(None)

\* ------------------------------------------------------------------ permission claims
\* READ_ONLY < READ_WRITE < MODERATE < ADMIN
LevelOrder == <<"read_only", "read_write", "moderate", "admin">>
LevelRank(p) == CHOOSE i \in 1..Len(LevelOrder) : LevelOrder[i] = p

\* Some held level is at or above the required one.
HeldSatisfies(held, required) ==
    \E p \in Range(held) : LevelRank(p) >= LevelRank(required)

\* C9: with no guild and no channel given, check_permission returns true iff the
\* maximum held level is >= the required level under the order READ_ONLY <
\* READ_WRITE < MODERATE < ADMIN; an empty held list satisfies no requirement.
C9_Hierarchy ==
    (pm.phase = "checked" /\ pm.guild_id = None /\ pm.channel_id = None)
    => (pm.result <=> HeldSatisfies(pm.token_data.permissions, pm.required))

\* A requirement that is not itself held was granted by a higher held level.
C9_Witness ==
    /\ pm.phase = "checked"
    /\ pm.guild_id = None
    /\ pm.channel_id = None
    /\ pm.required \notin Range(pm.token_data.permissions)
    /\ pm.token_data.permissions # <<>>
    /\ pm.result

\* The scope rule for one id: absent, or the scope is empty, or the scope lists it.
ScopeRule(id, scope) == id = None \/ scope = <<>> \/ id[1] \in Range(scope)

\* C10: the scope check passes iff (the guild id is absent or the guild scope is
\* empty or contains the guild id) and the same holds for the channel, both in
\* check_permission and in the guild / channel access dependencies.
C10_ScopeRule ==
    pm.phase = "checked" =>
        /\ check_permission(pm.token_data, pm.required, None, None)
             => (pm.result <=> /\ ScopeRule(pm.guild_id, pm.token_data.guild_ids)
                               /\ ScopeRule(pm.channel_id, pm.token_data.channel_ids))
        /\ pm.guild_id # None
             => (~pm.guild_raises <=> ScopeRule(pm.guild_id, pm.token_data.guild_ids))
        /\ pm.channel_id # None
             => (~pm.channel_raises
                   <=> ScopeRule(pm.channel_id, pm.token_data.channel_ids))

\* ------------------------------------------------------------------ route claims
\* The header carries a bearer token that verifies and has not expired by now.
ValidNow(auth) ==
    /\ auth # None
    /\ auth[1].scheme = "Bearer"
    /\ SignatureVerifies(auth[1].token)
    /\ ~ExpiredAt(auth[1].token, clock)

\* The route declares a requirement.
Declares == rt.required # None \/ rt.guild_id # None \/ rt.channel_id # None

\* The request went through the rate limiter and the route has answered it.
Answered == rt.phase = "done" /\ rt.allowed

\* The claims of a payload, as a principal.
PrincipalOf(payload) ==
    TokenData(DictGet(payload, "key_id", None), DictGet(payload, "user_id", None),
              DictGet(payload, "permissions", <<>>),
              DictGet(payload, "guild_ids", <<>>),
              DictGet(payload, "channel_ids", <<>>))

\* The principal holds the level the route requires, and the route's guild and
\* channel are in its scope.
MayPass(principal) ==
    /\ rt.required = None \/ HeldSatisfies(principal.permissions, rt.required[1])
    /\ ScopeRule(rt.guild_id, principal.guild_ids)
    /\ ScopeRule(rt.channel_id, principal.channel_ids)

PresentsUndecodable(auth) ==
    /\ auth # None
    /\ auth[1].scheme = "Bearer"
    /\ ~SignatureVerifies(auth[1].token)

\* C12: every request that presents a bearer token which fails decoding ends
\* Rejected(Unauthenticated) with status 401; it is never admitted and never
\* processed as an anonymous principal.
C12_BadTokenUnauthenticated ==
    (rt.phase = "done" /\ PresentsUndecodable(rt.auth)) => rt.status = 401

\* C13: the rate limit key is scopePrefix:principalIdentifier:routeIdentifier with
\* the principal identifier "anonymous" combined with the caller's IP address
\* when the token names neither key_id nor user_id; two anonymous requests from
\* different addresses on the same route never share a rate limit window.
C13_AnonymousKeyPerAddress ==
    (/\ rt.auth = None
     /\ rt.key # ""
     /\ rt.last_anonymous # None
     /\ rt.last_anonymous[1].client # rt.client)
    => rt.key # rt.last_anonymous[1].key

\* C14: the rate limit check-and-record step happens only after the token is
\* decoded and the permission / scope check has passed: a request that ends
\* Rejected(Unauthenticated) or Rejected(Forbidden) records no timestamp and
\* consumes no quota of any rate limit key.  (Stated for the first request,
\* before which the store is empty.)
C14_RejectedRecordsNothing ==
    (rt.phase = "done" /\ rt.sent = 1 /\ rt.status \in {401, 403})
    => \A k \in RateLimitKeys : store[k] = {}

\* No call to the store failed while the current request was served.
NoStoreError == \A i \in 1..Len(rt.events) : "error" \notin rt.events[i].fields

\* Every request sent so far is recorded under the current key, inside the
\* current window: the requests came in quick succession from one key, each
\* with a clock reading of its own.
QuickSuccession ==
    /\ rt.key # ""
    /\ Cardinality(store[rt.key]) = rt.sent
    /\ \A e \in store[rt.key] : e.score > clock - settings.rate_limit_window

\* C15: with limit L and window W, for L+1 requests in quick succession from
\* the same key on the same route, the i-th response for i = 1..L is admitted and
\* carries X-RateLimit-Remaining = L - i, and response L+1 is a 429 carrying
\* X-RateLimit-Remaining = 0 and Retry-After = W.
C15_RemainingCountsDown ==
    (/\ rt.phase = "done"
     /\ ~Declares
     /\ NoStoreError
     /\ QuickSuccession
     /\ rt.sent <= settings.rate_limit_requests + 1)
    => IF rt.sent <= settings.rate_limit_requests
       THEN /\ rt.status = 200
            /\ rt.headers.remaining = Some(settings.rate_limit_requests - rt.sent)
       ELSE /\ rt.status = 429
            /\ rt.headers.remaining = Some(0)
            /\ rt.headers.retry_after = Some(settings.rate_limit_window)

\* The request ended in a rejection: 401, 403, or turned away by the rate limiter.
Rejected ==
    /\ rt.phase = "done"
    /\ rt.status \in {401, 403} \/ (rt.key # "" /\ ~rt.allowed)

\* What an audit event of a rejection carries, in the field names of
\* log_authentication_event: route, method, rejection reason, caller address.
AuditFields == {"endpoint", "method", "error", "ip_address"}

\* C16: every request that ends in a rejection (401, 403 or rate limited) emits
\* exactly one audit event, which carries the route, the method, the principal
\* identifier when known, the rejection reason and the caller's network address.
C16_OneAuditEventPerRejection ==
    (Rejected /\ NoStoreError)
    => /\ Len(rt.events) = 1
       /\ AuditFields \subseteq rt.events[1].fields

\* C17: the response to a permission-level rejection is generic: two rejected
\* requests that differ only in which check failed (insufficient level, guild
\* or channel out of scope) or in the value of the failing claim receive the
\* same status and the same message.  The 403 given to the current request is
\* compared with the 403 the same credentials get on every other route.
C17_GenericRejection ==
    (rt.phase = "done" /\ rt.status = 403 /\ rt.auth # None)
    => \A lv \in RouteLevels, g \in RouteGuilds, c \in RouteChannels :
         \A a \in RouteDepends(rt.auth, lv, g, c, clock) :
             a.status = 403 => a.detail = rt.detail

\* ------------------------------------------------------------------ more token claims
\* C18: a correctly signed, unexpired token whose permissions claim contains a
\* value outside {read_only, read_write, moderate, admin} is rejected by
\* verify_token; the unknown value is never silently dropped to produce a
\* principal with the remaining permissions.
C18_UnknownPermissionRejected ==
    (/\ tk.phase = "verified"
     /\ SignatureVerifies(tk.token)
     /\ ~ExpiredAt(tk.token, tk.verified_at)
     /\ \E p \in Range(tk.token.payload["permissions"]) : p \notin PermissionLevel)
    => ~ReturnsClaims(tk.result)

\* The default life of a token, in seconds.
DefaultTtl == api_key_expire_hours * SecondsPerHour

\* now + ttl, with the default ttl when none is given
NowPlusTtl == tk.issued_at + (IF tk.ttl = None THEN DefaultTtl ELSE tk.ttl[1])

\* C19: the expiry encoded in an issued token is now + ttl (the default ttl when
\* none is given), except when the credential's own expires_at is sooner, in
\* which case it is expires_at: token expiry = min(now + ttl, expires_at).
C19_ExpiryIsMin ==
    (tk.phase = "issued" /\ ~tk.altered)
    => tk.token.payload["exp"] =
         IF tk.credential # None /\ tk.credential[1].expires_at # None
         THEN Min({NowPlusTtl, tk.credential[1].expires_at[1]})
         ELSE NowPlusTtl

\* ------------------------------------------------------------------ get_rate_limit_info claims
\* C20: get_rate_limit_info is read-only: no step of it records a timestamp,
\* removes one or changes an expiry, and it completes without error when
\* interleaved at any point with concurrent is_allowed calls on the same key.
C20_PeekReadOnly ==
    [][ /\ pk' # pk => (store' = store /\ expire_at' = expire_at)
        /\ pk'.phase = "done" => pk'.result.kind = "return" ]_vars

\* An is_allowed call recorded its request between the ZCOUNT and the ZRANGE of
\* a finished get_rate_limit_info: the count is 0 and there is an oldest entry.
C20_Witness ==
    /\ pk.phase = "done"
    /\ pk.step = Len(PeekCommands)
    /\ pk.count = 0
    /\ pk.result.value.reset # None
    /\ \E r \in Reqs : req[r].pc = "done" /\ req[r].key = pk.key

\* ------------------------------------------------------------------ hash_api_key, rate-limit keys
\* The salts passlib draws for bcrypt (16 random bytes each).
Salts == {"c2FsdEE", "c2FsdEI"}

\* The bcrypt digest of a secret under a salt: one digest per (salt, secret).
bcrypt_checksum(salt, secret) == "(" \o salt \o "|" \o secret \o ")"

\* hash_api_key(api_key): pwd_context.hash(api_key) with the bcrypt scheme,
\* salt being the salt passlib drew for this call.  The hash is the modular
\* crypt string $2b$<rounds>$<salt><digest>.
hash_api_key(api_key, salt) == "$2b$12$" \o salt \o bcrypt_checksum(salt, api_key)

\* The API keys hashed.
ApiKeys == {"test_key", "k"}

\* The claims of the bearer tokens callers present: an API key, users, and a
\* token that names neither.
CallerClaims ==
    {[key_id |-> Some("k1"), permissions |-> <<"read_only">>],
     [key_id |-> Some("k1:/a"), permissions |-> <<"read_only">>],
     [user_id |-> Some("k1"), permissions |-> <<"read_only">>],
     [user_id |-> Some("anonymous"), permissions |-> <<"read_only">>],
     [permissions |-> <<"read_only">>]}

\* The Authorization header of a caller: none, or a token valid for a day.
CallerHeaders ==
    {None} \cup
    {Some([scheme |-> "Bearer", token |-> create_access_token(c, None, 0)]) :
        c \in CallerClaims}

\* request.url.path of the callers; ':' is a legal character of a path.
CallerPaths == {"/b", "/a:/b"}

Callers == [auth : CallerHeaders, path : CallerPaths]

InitKeys ==
    /\ InitQuiet
    /\ tk = TkIdle
    /\ pm = PmIdle
    /\ rt = RtIdle
    /\ pk = PkIdle
    /\ rs = RsIdle
    /\ ia = IaIdle
    /\ ky \in [api_key : ApiKeys, hashes : {<<>>},
               callers : [1..2 -> Callers], keys : {<<>>}]

\* hash_api_key(ky.api_key) is called once more.
KyHash ==
    /\ Len(ky.hashes) < 2
    /\ \E salt \in Salts :
         ky' = [ky EXCEPT !.hashes = Append(@, hash_api_key(ky.api_key, salt))]
    /\ UNCHANGED <<clock, settings, store, expire_at, req, tk, pm, rt, pk, rs, ia>>

\* rate_limit_middleware lines 100-115 for the next caller: its key is derived.
KyDerive ==
    /\ Len(ky.keys) < Len(ky.callers)
    /\ LET c == ky.callers[Len(ky.keys) + 1]
           m == MiddlewareKey(c.auth, c.path, clock)
       IN /\ m.kind = "return"
          /\ ky' = [ky EXCEPT !.keys = Append(@, m.value[1])]
    /\ UNCHANGED <<clock, settings, store, expire_at, req, tk, pm, rt, pk, rs, ia>>

NextKeys == KyHash \/ KyDerive

SpecKeys == InitKeys /\ [][NextKeys]_vars

\* ------------------------------------------------------------------ is_allowed with arguments
\* The values passed for an Optional[int] parameter: not passed, or 0..bound.
OptionalInts(bound) == {None} \cup {Some(n) : n \in 0..bound}

\* is_allowed(key, limit, window) lines 31-54 on the sorted set z of key, the
\* store answering at the time now the call read.
is_allowed(z, limit, window, now, cfg) ==
    LET l == OrDefault(limit, cfg.rate_limit_requests)
        w == OrDefault(window, cfg.rate_limit_window)
        res == PipelineExecute(z, now, w, now)
    IN [zset |-> res.zset, expire_at |-> res.expire_at,
        allowed |-> Allowed(res.request_count, l)]

\* The entries of z inside the window the caller asked for (the configured
\* one when none was passed).
CountInside(z, window, now, cfg) ==
    LET w == IF window = None THEN cfg.rate_limit_window ELSE window[1]
    IN Cardinality({e \in z : e.score > now - w})

\* One more is_allowed(key, limit, window) call, answered by the store.
IaCall ==
    /\ ia.calls < MaxReqs
    /\ \E k \in RateLimitKeys, limit \in OptionalInts(MaxLimit),
          window \in OptionalInts(MaxWindow) :
         LET res == is_allowed(store[k], limit, window, clock, settings) IN
         /\ store' = [store EXCEPT ![k] = res.zset]
         /\ expire_at' = [expire_at EXCEPT ![k] = res.expire_at]
         /\ ia' = [calls |-> ia.calls + 1, key |-> k, limit |-> limit,
                   window |-> window, now |-> clock,
                   in_window |-> CountInside(store[k], window, clock, settings),
                   allowed |-> res.allowed, failed |-> FALSE]
    /\ UNCHANGED <<clock, settings, req, tk, pm, rt, pk, rs, ky>>

\* One more is_allowed call whose pipeline raises (lines 67-70): the server
\* may or may not have run it.
IaCallError ==
    /\ ia.calls < MaxReqs
    /\ \E k \in RateLimitKeys, limit \in OptionalInts(MaxLimit),
          window \in OptionalInts(MaxWindow), applied \in BOOLEAN :
         LET res == is_allowed(store[k], limit, window, clock, settings) IN
         /\ store' = [store EXCEPT ![k] = IF applied THEN res.zset ELSE @]
         /\ expire_at' = [expire_at EXCEPT ![k] =
                             IF applied THEN res.expire_at ELSE @]
         /\ ia' = [calls |-> ia.calls + 1, key |-> k, limit |-> limit,
                   window |-> window, now |-> clock,
                   in_window |-> CountInside(store[k], window, clock, settings),
                   allowed |-> OnStoreError, failed |-> TRUE]
    /\ UNCHANGED <<clock, settings, req, tk, pm, rt, pk, rs, ky>>

\* A server whose rate limiter is called directly.
InitArgs ==
    /\ InitServer(0)
    /\ tk = TkIdle
    /\ pm = PmIdle
    /\ rt = RtIdle
    /\ pk = PkIdle
    /\ rs = RsIdle
    /\ ky = KyIdle
    /\ ia = IaIdle

NextArgs == Tick \/ IaCall \/ IaCallError

SpecArgs == InitArgs /\ [][NextArgs]_vars

\* ------------------------------------------------------------------ reset_rate_limit
\* FLUSHDB in place of DEL: every key of the store is emptied.
RedisDeleteAll(db, key, empty) == [k \in DOMAIN db |-> empty]

\* DEL key on a store db: the key is gone, read back as empty
RedisDelete(db, key, empty) == [db EXCEPT ![key] = empty]

\* The key would reject a request made now: its in-window count is at the limit.
Exhausted(z, now, cfg) ==
    ~Allowed(ZCard(ZRemRangeByScore(z, 0, now - cfg.rate_limit_window)),
             cfg.rate_limit_requests)

\* The answers so far, with the answer to one more call for key k.
AfterCall(k, allowed, failed) ==
    IF rs.phase = "done" /\ rs.key = k
    THEN Append(rs.after, [allowed |-> allowed, failed |-> failed])
    ELSE rs.after

\* is_allowed(key) lines 31-65 with the configured limit and window: the call
\* read its clock at some time now up to the present, and the store runs its
\* pipeline at the present.
RsIsAllowed ==
    /\ rs.calls < MaxReqs + 1
    /\ \E k \in RateLimitKeys, now \in 0..clock :
         LET res == PipelineExecute(store[k], now,
                        OrDefault(None, settings.rate_limit_window), clock)
             allowed == Allowed(res.request_count,
                                OrDefault(None, settings.rate_limit_requests))
         IN /\ store' = [store EXCEPT ![k] = res.zset]
            /\ expire_at' = [expire_at EXCEPT ![k] = res.expire_at]
            /\ rs' = [rs EXCEPT !.calls = @ + 1,
                                !.after = AfterCall(k, allowed, FALSE)]
    /\ UNCHANGED <<clock, settings, req, tk, pm, rt, pk, ky, ia>>

\* is_allowed(key) lines 67-70: the pipeline raises; the server may or may not
\* have run it.
RsIsAllowedError ==
    /\ rs.calls < MaxReqs + 1
    /\ \E k \in RateLimitKeys, now \in 0..clock, applied \in BOOLEAN :
         LET res == PipelineExecute(store[k], now,
                        OrDefault(None, settings.rate_limit_window), clock)
         IN /\ store' = [store EXCEPT ![k] = IF applied THEN res.zset ELSE @]
            /\ expire_at' = [expire_at EXCEPT ![k] =
                                IF applied THEN res.expire_at ELSE @]
            /\ rs' = [rs EXCEPT !.calls = @ + 1,
                                !.after = AfterCall(k, OnStoreError, TRUE)]
    /\ UNCHANGED <<clock, settings, req, tk, pm, rt, pk, ky, ia>>

\* reset_rate_limit(key) lines 107-110: redis_client.delete(key) answers; the
\* sorted set goes and its TTL with it.  Returns True.
ResetRateLimit ==
    /\ rs.phase = "idle"
    /\ \E k \in RateLimitKeys :
         /\ store' = RedisDelete(store, k, {})
         /\ expire_at' = RedisDelete(expire_at, k, NoExpiry)
         /\ rs' = [rs EXCEPT !.phase = "done", !.key = k, !.result = TRUE,
                     !.exhausted = Exhausted(store[k], clock, settings)]
    /\ UNCHANGED <<clock, settings, req, tk, pm, rt, pk, ky, ia>>

\* reset_rate_limit(key) lines 111-113: redis_client.delete(key) raises; the
\* server may or may not have deleted the key.  Returns False.
ResetRateLimitError ==
    /\ rs.phase = "idle"
    /\ \E k \in RateLimitKeys, applied \in BOOLEAN :
         /\ store' = IF applied THEN RedisDelete(store, k, {}) ELSE store
         /\ expire_at' = IF applied THEN RedisDelete(expire_at, k, NoExpiry)
                         ELSE expire_at
         /\ rs' = [rs EXCEPT !.phase = "done", !.key = k, !.result = FALSE,
                     !.exhausted = Exhausted(store[k], clock, settings)]
    /\ UNCHANGED <<clock, settings, req, tk, pm, rt, pk, ky, ia>>

NextReset ==
    \/ Tick
    \/ RsIsAllowed
    \/ RsIsAllowedError
    \/ ResetRateLimit
    \/ ResetRateLimitError

\* The rate limiter called directly, its keys open to a reset.
SpecReset == InitArgs /\ [][NextReset]_vars

\* ------------------------------------------------------------------ claims: reset_rate_limit
\* A successful reset empties its key and touches no other key.
ResetDeletesOnlyItsKey ==
    (rs.phase = "idle" /\ rs'.phase = "done" /\ rs'.result) =>
        /\ store'[rs'.key] = {}
        /\ expire_at'[rs'.key] = NoExpiry
        /\ \A j \in RateLimitKeys \ {rs'.key} :
              store'[j] = store[j] /\ expire_at'[j] = expire_at[j]

\* The first `limit` calls for the key after a successful reset are allowed.
NextLimitRequestsAllowed ==
    (rs.phase = "done" /\ rs.result) =>
        \A i \in 1..Len(rs.after) :
            i <= settings.rate_limit_requests => rs.after[i].allowed

\* C21: reset_rate_limit(key) deletes all recorded state of that key and of no
\* other key: right after a successful reset the key holds no timestamp, so
\* the next `limit` requests for it are allowed even if the key was exhausted
\* before the reset.
C21_ResetClearsKey ==
    [][ResetDeletesOnlyItsKey]_vars /\ []NextLimitRequestsAllowed

\* A key at its limit is reset; the next call for it is allowed by the
\* store's answer and a call beyond the limit is rejected again.
C21_Witness ==
    /\ rs.phase = "done" /\ rs.result /\ rs.exhausted
    /\ Len(rs.after) > settings.rate_limit_requests
    /\ rs.after[1].allowed /\ ~rs.after[1].failed
    /\ ~rs.after[Len(rs.after)].allowed

\* ------------------------------------------------------------------ claims: hash_api_key, rate-limit keys
\* C22: hash_api_key is deterministic and not the identity: hashing the same
\* API key twice yields the same hash, and the hash differs from the key.
C22_HashDeterministic ==
    Len(ky.hashes) = 2 =>
        /\ ky.hashes[1] = ky.hashes[2]
        /\ ky.hashes[1] # ky.api_key

\* Whom a caller is to the rate limiter: the key or the user its token names,
\* or nobody.
CallerPrincipal(c) ==
    IF c.auth = None THEN <<"anonymous">>
    ELSE LET p == PrincipalOf(c.auth[1].token.payload) IN
         IF TruthyOptStr(p.key_id) THEN <<"key", p.key_id[1]>>
         ELSE IF TruthyOptStr(p.user_id) THEN <<"user", p.user_id[1]>>
         ELSE <<"token">>

\* C27: create_rate_limit_key is injective on what it identifies: two requests
\* share a rate-limit key only if they have the same principal and the same
\* route (the prefix being the same for all), also when a user_id is the
\* string "anonymous" or an identifier or path contains ':'.
C27_KeyInjective ==
    \A i, j \in 1..Len(ky.keys) :
        ky.keys[i] = ky.keys[j] =>
            /\ CallerPrincipal(ky.callers[i]) = CallerPrincipal(ky.callers[j])
            /\ ky.callers[i].path = ky.callers[j].path

\* ------------------------------------------------------------------ claims: what is_allowed records
\* The timestamps of a sorted set that are inside the window ending at now.
InWindow(z, now, window) == {e \in z : e.score > now - window}

\* The store has answered request r's pipeline in this step.
Answers(r) == req[r].pc = "timed" /\ req'[r].pc = "done" /\ ~req'[r].failed

\* C23: is_allowed inserts a timestamp and refreshes the key's expiry only when
\* the counted number of in-window timestamps is < limit; a rejected check
\* records nothing: the in-window timestamps of the key and its expiry are the
\* same after the rejection as before it.
C23_RejectionRecordsNothing ==
    [][\A r \in Reqs :
         (Answers(r) /\ ~req'[r].allowed) =>
             LET k == req[r].key IN
             /\ InWindow(store'[k], req[r].now, req[r].window)
                    = InWindow(store[k], req[r].now, req[r].window)
             /\ expire_at'[k] = expire_at[k]]_vars

\* C24: every request that is_allowed records increases the number of entries
\* stored for its key by exactly one, also when two requests for the same key
\* carry the same clock value: the key holds one entry more than the in-window
\* entries the request counted.
C24_EachRecordAddsOne ==
    [][\A r \in Reqs :
         Answers(r) =>
             ZCard(store'[req[r].key]) = req'[r].request_count + 1]_vars

\* The accepted requests of b's key that were inside the window when b was checked.
AcceptedInWindow(b) ==
    {a \in Admitted(req[b].key) :
        a < b /\ req[a].now > req[b].now - settings.rate_limit_window}

\* resetAt of a rejection: oldest accepted in-window timestamp + window.
ResetAt(b) ==
    Min({req[a].now : a \in AcceptedInWindow(b)}) + settings.rate_limit_window

\* C25: once a key has been rejected, the first request for it made at or after
\* resetAt = (oldest accepted in-window timestamp + window) is allowed,
\* whatever number of rejected requests the client made in between.
C25_AllowedAtReset ==
    \A k \in RateLimitKeys : \A b, c \in Checked(k) :
        ( /\ NoFailure(k) /\ Sequential(k)
          /\ b < c /\ ~req[b].allowed /\ AcceptedInWindow(b) # {}
          /\ req[c].now >= ResetAt(b)
          /\ \A q \in Checked(k) : (b < q /\ q < c) => req[q].now < ResetAt(b) )
        => req[c].allowed

\* ------------------------------------------------------------------ claims: reported reset time
\* C26: whenever get_rate_limit_info reports a reset time, that time is derived
\* from a timestamp still inside the window and so lies in the future: in every
\* store state, also one that holds timestamps older than the window that no
\* check has pruned yet, a reported reset that is not None is strictly greater
\* than the time the call read.
C26_ResetInFuture ==
    (pk.phase = "done" /\ pk.result.value.reset # None) =>
        pk.result.value.reset[1] > pk.now

\* ------------------------------------------------------------------ claims: tokens and their credential
\* C28: create_api_key_token never issues a token that outlives its
\* credential: the token's exp is never later than the credential's
\* expires_at, and the token of a credential whose expires_at is <= now
\* (exactly now included) is rejected by verify_token.
C28_TokenWithinCredential ==
    ( /\ tk.phase \in {"issued", "verified"} /\ ~tk.altered
      /\ tk.credential # None /\ tk.credential[1].expires_at # None )
    => /\ tk.token.payload["exp"] <= tk.credential[1].expires_at[1]
       /\ ( /\ tk.phase = "verified"
            /\ tk.credential[1].expires_at[1] <= tk.issued_at )
          => ~ReturnsClaims(tk.result)

\* C29: the outcome of verify_token for a token depends only on the token, the
\* signing secret and the current time: clearing is_active on the issuing
\* credential after the token is issued never changes whether the token is
\* accepted.  The token of a credential, revoked or not, is accepted exactly
\* when it is unaltered and its exp has not been reached.
C29_RevocationLeavesTokenValid ==
    (tk.phase = "verified" /\ tk.credential # None)
    => ( ReturnsClaims(tk.result)
           <=> (~tk.altered /\ tk.verified_at < tk.token.payload["exp"]) )

\* The token of a revoked credential has been verified and accepted.
C29_Witness ==
    /\ tk.phase = "verified"
    /\ tk.credential # None /\ ~tk.credential[1].is_active
    /\ ReturnsClaims(tk.result)

\* ------------------------------------------------------------------ claims: explicit limit and window
\* C30: is_allowed enforces exactly the limit and window passed to it: for
\* every explicitly passed limit L >= 0 and window W >= 0 the decision is
\* allowed iff the in-window count is < L, so with L = 0 no request is ever
\* allowed; the configured defaults are used only for an argument not passed.
C30_EnforcesPassedLimit ==
    (ia.calls > 0 /\ ~ia.failed) =>
        LET l == IF ia.limit = None THEN settings.rate_limit_requests
                 ELSE ia.limit[1]
        IN ia.allowed <=> ia.in_window < l

====
